---- MODULE Spec2Model ----
(***************************************************************************)
(* SaMD launch assessor (langgraphagents2.py).                             *)
(*                                                                         *)
(* One run of the Streamlit script over an uploaded survey sheet: the      *)
(* required-column check, the derived score columns, then for every row    *)
(* of the sheet one invocation of the compiled LangGraph                   *)
(* risk -> opportunity -> readiness -> decision, each node making one      *)
(* llm.invoke call, and the append of the row's result record.             *)
(*                                                                         *)
(* A numeric cell is [int |-> n, frac |-> d]: its integer part and its     *)
(* first decimal digit.  Strings are cells as they are.  A Python dict is  *)
(* a function whose DOMAIN is its key set.  An exception nobody catches    *)
(* ends the script run (pc = "crashed").                                   *)
(***************************************************************************)
EXTENDS Integers, Sequences, FiniteSets, TLC

VARIABLES
    df,        \* the uploaded sheet: [columns |-> set of names, rows |-> sequence of dicts]
    failAt,    \* the text-generation service: failAt[i] = 0, the calls made for row i
               \* succeed; failAt[i] = k > 0, they fail from the k-th node on
    pc,        \* position of the script
    error,     \* what st.error showed, or NoError
    idx,       \* number of the row the loop is at (0 before the loop)
    state,     \* the dict the graph threads through the nodes of the current row
    calls,     \* history of the llm.invoke calls, in the order they were made
    results,   \* the list `results`
    report     \* the table handed to st.download_button, or NoReport

vars == <<df, failAt, pc, error, idx, state, calls, results, report>>

----------------------------------------------------------------------------
(* Bounds of the model *)

MaxRows == 2
MaxMissing == 1
MaxReadiness == 4

----------------------------------------------------------------------------
(* Data *)

Num(n) == [int |-> n, frac |-> 0]

Range(s) == {s[i] : i \in 1..Len(s)}

required_columns ==
    << "Country", "Risk_Class", "Medical_Incidence", "Tech_Limitations",
       "Predicate_US", "Population", "Country_Wealth",
       "Market_Maturity", "Affiliate_Readiness", "Digital_Readiness" >>

RequiredSet == Range(required_columns)

NoError == [shown |-> FALSE]
NoReport == [shown |-> FALSE]
EmptyDict == << >>

\* d[k] = v of a Python dict
DictSet(d, k, v) == [x \in (DOMAIN d) \cup {k} |-> IF x = k THEN v ELSE d[x]]

\* int(x) of a non-negative number: truncation
PyInt(c) == c.int


----------------------------------------------------------------------------
(* Scoring logic *)

ScoreInputs ==
    { "Risk_Class", "Medical_Incidence", "Tech_Limitations",
      "Market_Maturity", "Affiliate_Readiness", "Digital_Readiness" }

calculate_scores_inverted(row) ==
    << PyInt(row["Risk_Class"]) + PyInt(row["Medical_Incidence"])
         + (3 - PyInt(row["Tech_Limitations"])),
       PyInt(row["Market_Maturity"]) + PyInt(row["Affiliate_Readiness"])
         + PyInt(row["Digital_Readiness"]) >>

calculate_scores(row) ==
    << (5 - PyInt(row["Risk_Class"])) + PyInt(row["Medical_Incidence"])
         + (3 - PyInt(row["Tech_Limitations"])),
       PyInt(row["Market_Maturity"]) + PyInt(row["Affiliate_Readiness"])
         + PyInt(row["Digital_Readiness"]) >>

\* df[['Risk_Score', 'Readiness_Score']] = df.apply(... calculate_scores(row) ...)
with_scores(row) ==
    DictSet(DictSet(row, "Risk_Score", Num(calculate_scores(row)[1])),
            "Readiness_Score", Num(calculate_scores(row)[2]))

----------------------------------------------------------------------------
(* Agent nodes: the prompt each one formats, the keys the formatting       *)
(* reads, and the assignment each one makes to the state.                  *)

Narratives ==
    << "risk_summary", "opportunity_summary", "readiness_summary", "final_decision" >>

risk_prompt(s) ==
    [ template |-> "risk",
      Country |-> s["row"]["Country"],
      Risk_Class |-> s["row"]["Risk_Class"],
      Medical_Incidence |-> s["row"]["Medical_Incidence"],
      Tech_Limitations |-> s["row"]["Tech_Limitations"],
      Predicate_US |-> s["row"]["Predicate_US"],
      Population |-> s["row"]["Population"] ]

opportunity_prompt(s) ==
    [ template |-> "opportunity",
      Country |-> s["row"]["Country"],
      Risk_Score |-> s["row"]["Risk_Score"],
      Country_Wealth |-> s["row"]["Country_Wealth"],
      Population |-> s["row"]["Population"],
      risk_summary |-> s["risk_summary"] ]

readiness_prompt(s) ==
    [ template |-> "readiness",
      Country |-> s["row"]["Country"],
      Market_Maturity |-> s["row"]["Market_Maturity"],
      Affiliate_Readiness |-> s["row"]["Affiliate_Readiness"],
      Digital_Readiness |-> s["row"]["Digital_Readiness"],
      Readiness_Score |-> s["row"]["Readiness_Score"] ]

decision_prompt_population(s) ==
    [ template |-> "decision",
      Country |-> s["row"]["Country"],
      Population |-> s["row"]["Population"],
      risk_summary |-> s["risk_summary"],
      opportunity_summary |-> s["opportunity_summary"],
      readiness_summary |-> s["readiness_summary"] ]

decision_prompt(s) ==
    [ template |-> "decision",
      Country |-> s["row"]["Country"],
      risk_summary |-> s["risk_summary"],
      opportunity_summary |-> s["opportunity_summary"],
      readiness_summary |-> s["readiness_summary"] ]

\* keys of the state, and columns of its row, a node's prompt reads
StateReads(node) ==
    CASE node = "risk" -> {"row"}
      [] node = "opportunity" -> {"row", "risk_summary"}
      [] node = "readiness" -> {"row"}
      [] node = "decision" ->
            {"row", "risk_summary", "opportunity_summary", "readiness_summary"}

RowReads(node) ==
    CASE node = "risk" ->
            { "Country", "Risk_Class", "Medical_Incidence", "Tech_Limitations",
              "Predicate_US", "Population" }
      [] node = "opportunity" ->
            {"Country", "Risk_Score", "Country_Wealth", "Population"}
      [] node = "readiness" ->
            { "Country", "Market_Maturity", "Affiliate_Readiness",
              "Digital_Readiness", "Readiness_Score" }
      [] node = "decision" -> {"Country"}

Prompt(node, s) ==
    CASE node = "risk" -> risk_prompt(s)
      [] node = "opportunity" -> opportunity_prompt(s)
      [] node = "readiness" -> readiness_prompt(s)
      [] node = "decision" -> decision_prompt(s)

SystemMessage(node) ==
    CASE node = "risk" -> "You are a Regulatory and Clinical Risk Expert."
      [] node = "opportunity" ->
            "You are a financial and opportunity analyst for healthcare markets."
      [] node = "readiness" ->
            "You are a digital infrastructure and readiness analyst."
      [] node = "decision" -> "You are responsible for SaMD global strategy."

risk_impact_evaluator(s, content) == DictSet(s, "risk_summary", content)

opportunity_roi_assessor_wrong_key(s, content) == DictSet(s, "risk_summary", content)

opportunity_roi_assessor(s, content) == DictSet(s, "opportunity_summary", content)

readiness_capability_analyzer(s, content) == DictSet(s, "readiness_summary", content)

strategic_decision_coordinator(s, content) == DictSet(s, "final_decision", content)

NodeFn(node, s, content) ==
    CASE node = "risk" -> risk_impact_evaluator(s, content)
      [] node = "opportunity" -> opportunity_roi_assessor(s, content)
      [] node = "readiness" -> readiness_capability_analyzer(s, content)
      [] node = "decision" -> strategic_decision_coordinator(s, content)

----------------------------------------------------------------------------
(* The graph *)

Nodes == << "risk", "opportunity", "readiness", "decision" >>

END == "emit"

entry_point == "risk"

edges_skip_opportunity ==
    [ risk |-> "readiness", opportunity |-> "readiness",
      readiness |-> "decision", decision |-> END ]

edges ==
    [ risk |-> "opportunity", opportunity |-> "readiness",
      readiness |-> "decision", decision |-> END ]

\* position of a node, and of the narrative it owns, in the pipeline
StageNo(node) == CHOOSE k \in 1..Len(Nodes) : Nodes[k] = node

----------------------------------------------------------------------------
(* Inputs of a run *)

Texts == {"textA", "textB"}

BrazilA ==
    [ Country |-> "Brazil", Risk_Class |-> Num(3), Medical_Incidence |-> Num(2),
      Tech_Limitations |-> Num(1), Predicate_US |-> "Yes", Population |-> Num(210),
      Country_Wealth |-> "Upper-Middle", Market_Maturity |-> Num(4),
      Affiliate_Readiness |-> Num(3), Digital_Readiness |-> Num(2) ]

BrazilB ==
    [ Country |-> "Brazil", Risk_Class |-> [int |-> 2, frac |-> 5],
      Medical_Incidence |-> Num(3), Tech_Limitations |-> Num(2),
      Predicate_US |-> "No", Population |-> Num(215),
      Country_Wealth |-> "Upper-Middle", Market_Maturity |-> Num(2),
      Affiliate_Readiness |-> Num(1), Digital_Readiness |-> Num(3) ]

India ==
    [ Country |-> "India", Risk_Class |-> Num(5), Medical_Incidence |-> Num(1),
      Tech_Limitations |-> Num(3), Predicate_US |-> "No", Population |-> Num(1400),
      Country_Wealth |-> "Lower-Middle", Market_Maturity |-> Num(1),
      Affiliate_Readiness |-> Num(2), Digital_Readiness |-> Num(5) ]

RowChoices == {BrazilA, BrazilB, India}

\* sheets of 1..MaxRows rows
Batches == UNION { [1..n -> RowChoices] : n \in 1..MaxRows }

\* column sets of a sheet: the required columns less at most MaxMissing of them
ColumnSets ==
    { RequiredSet \ M : M \in {X \in SUBSET RequiredSet : Cardinality(X) <= MaxMissing} }

Sheet(cols, rows) ==
    [ columns |-> cols,
      rows |-> [i \in 1..Len(rows) |-> [c \in cols |-> rows[i][c]]] ]

----------------------------------------------------------------------------
(* The script *)

TypeOK ==
    /\ pc \in { "validate", "stopped", "score", "loop", "risk", "opportunity",
                "readiness", "decision", "emit", "done", "crashed" }
    /\ idx \in 0..Len(df.rows)
    /\ Len(results) <= Len(df.rows)

Init ==
    /\ \E cols \in ColumnSets, rows \in Batches : df = Sheet(cols, rows)
    /\ failAt \in [1..Len(df.rows) -> 0..Len(Nodes)]
    /\ pc = "validate"
    /\ error = NoError
    /\ idx = 0
    /\ state = EmptyDict
    /\ calls = << >>
    /\ results = << >>
    /\ report = NoReport

has_any_required_column(columns) ==
    \E i \in 1..Len(required_columns) : required_columns[i] \in columns

\* all(col in df.columns for col in required_columns)
has_required_columns(columns) ==
    \A i \in 1..Len(required_columns) : required_columns[i] \in columns

\* if not all(...): st.error(...); st.stop()
ValidateColumns ==
    /\ pc = "validate"
    /\ IF has_required_columns(df.columns)
         THEN /\ pc' = "score"
              /\ error' = error
         ELSE /\ error' = [ shown |-> TRUE,
                            message |-> "Missing columns in your Excel file. Required:",
                            columns |-> required_columns ]
              /\ pc' = "stopped"
    /\ UNCHANGED <<df, failAt, idx, state, calls, results, report>>

uncaught_swallowed(node) == edges[node]

\* pc after an exception raised inside the loop body: nothing catches it
uncaught(node) == "crashed"

\* the derived columns; row['...'] of an absent column raises KeyError
ComputeScores ==
    /\ pc = "score"
    /\ IF ScoreInputs \subseteq df.columns
         THEN /\ df' = [ columns |-> df.columns \cup {"Risk_Score", "Readiness_Score"},
                         rows |-> [i \in 1..Len(df.rows) |-> with_scores(df.rows[i])] ]
              /\ pc' = "loop"
         ELSE /\ df' = df
              /\ pc' = "crashed"
    /\ UNCHANGED <<failAt, error, idx, state, calls, results, report>>

graph_input_shared(row) == DictSet(state, "row", row)

\* {"row": row.to_dict()}
graph_input(row) == [row |-> row]

\* for idx, row in df.iterrows(): ... agent_graph.invoke({"row": row.to_dict()})
BeginRecord ==
    /\ pc = "loop"
    /\ idx < Len(df.rows)
    /\ idx' = idx + 1
    /\ state' = graph_input(df.rows[idx + 1])
    /\ pc' = entry_point
    /\ UNCHANGED <<df, failAt, error, calls, results, report>>

\* the service's answer to the call a node makes for row i
LLMFails(i, node) == failAt[i] # 0 /\ StageNo(node) >= failAt[i]

llm_invoke_retry(log, entry) ==
    IF entry.ok THEN Append(log, entry) ELSE Append(Append(log, entry), entry)

\* response = llm.invoke([SystemMessage(...), HumanMessage(content=prompt)])
llm_invoke(log, entry) == Append(log, entry)

Call(node, ok, content) ==
    [ rec |-> idx, node |-> node, state |-> state,
      system |-> SystemMessage(node), prompt |-> Prompt(node, state),
      ok |-> ok, content |-> content ]

\* one node of the graph: format the prompt, call the model, store the content,
\* follow the node's edge
RunNode(node) ==
    /\ pc = node
    /\ IF ~(StateReads(node) \subseteq DOMAIN state
            /\ RowReads(node) \subseteq DOMAIN state["row"])
         THEN \* KeyError while formatting the prompt
              /\ pc' = uncaught(node)
              /\ UNCHANGED <<state, calls>>
         ELSE IF LLMFails(idx, node)
                THEN /\ calls' = llm_invoke(calls, Call(node, FALSE, "none"))
                     /\ pc' = uncaught(node)
                     /\ state' = state
                ELSE \E content \in Texts :
                        /\ calls' = llm_invoke(calls, Call(node, TRUE, content))
                        /\ state' = NodeFn(node, state, content)
                        /\ pc' = edges[node]
    /\ UNCHANGED <<df, failAt, error, idx, results, report>>

RiskNode == RunNode("risk")

OpportunityNode == RunNode("opportunity")

ReadinessNode == RunNode("readiness")

DecisionNode == RunNode("decision")

result_record(row, s) ==
    ("Country" :> row["Country"]) @@ ("Risk Summary" :> s["risk_summary"])
      @@ ("Opportunity Summary" :> s["opportunity_summary"])
      @@ ("Readiness Summary" :> s["readiness_summary"])
      @@ ("Final Decision" :> s["final_decision"])

\* the expander and results.append({...}) once the graph has returned
EmitResult ==
    /\ pc = END
    /\ IF Range(Narratives) \subseteq DOMAIN state
         THEN /\ results' = Append(results, result_record(df.rows[idx], state))
              /\ pc' = "loop"
         ELSE /\ results' = results
              /\ pc' = "crashed"
    /\ UNCHANGED <<df, failAt, error, idx, state, calls, report>>

\* result_df = pd.DataFrame(results); st.download_button(...)
Report ==
    /\ pc = "loop"
    /\ idx = Len(df.rows)
    /\ report' = [shown |-> TRUE, table |-> results]
    /\ pc' = "done"
    /\ UNCHANGED <<df, failAt, error, idx, state, calls, results>>

Next ==
    \/ ValidateColumns
    \/ ComputeScores
    \/ BeginRecord
    \/ RiskNode
    \/ OpportunityNode
    \/ ReadinessNode
    \/ DecisionNode
    \/ EmitResult
    \/ Report

Spec == Init /\ [][Next]_vars

----------------------------------------------------------------------------
(* The scoring pass on its own: one-row sheets over every combination of   *)
(* the six score inputs.                                                   *)

ScoreRows ==
    { [ BrazilA EXCEPT !["Risk_Class"] = [int |-> rc, frac |-> fr],
                       !["Medical_Incidence"] = Num(mi),
                       !["Tech_Limitations"] = Num(tl),
                       !["Market_Maturity"] = Num(mm),
                       !["Affiliate_Readiness"] = Num(ar),
                       !["Digital_Readiness"] = Num(dr) ] :
        rc \in 1..5, fr \in {0, 5}, mi \in 1..3, tl \in 1..3,
        mm \in 1..MaxReadiness, ar \in 1..MaxReadiness, dr \in 1..MaxReadiness }

InitScore ==
    /\ \E row \in ScoreRows : df = Sheet(RequiredSet, << row >>)
    /\ failAt = [i \in 1..Len(df.rows) |-> 0]
    /\ pc = "score"
    /\ error = NoError
    /\ idx = 0
    /\ state = EmptyDict
    /\ calls = << >>
    /\ results = << >>
    /\ report = NoReport

NextScore == ComputeScores

SpecScore == InitScore /\ [][NextScore]_vars

----------------------------------------------------------------------------
(* Properties *)

NarrativeSet == Range(Narratives)

NodeSet == Range(Nodes)

ResultFields ==
    << "Risk Summary", "Opportunity Summary", "Readiness Summary", "Final Decision" >>

Missing == RequiredSet \ df.columns

CallsOf(i) == SelectSeq(calls, LAMBDA c : c.rec = i)

DecisionCalls == {calls[k] : k \in {j \in 1..Len(calls) : calls[j].node = "decision"}}

SameNarratives(a, b) ==
    /\ a.state["risk_summary"] = b.state["risk_summary"]
    /\ a.state["opportunity_summary"] = b.state["opportunity_summary"]
    /\ a.state["readiness_summary"] = b.state["readiness_summary"]

Whole(row) == \A c \in ScoreInputs : row[c].frac = 0

\* C1: in every reachable assessment state the narrative fields are populated in
\* the order risk_summary, opportunity_summary, readiness_summary, final_decision
\* without gaps: a field is set only if the field before it is set.
C1_OrderedNoGaps ==
    \A k \in 2..Len(Narratives) :
        Narratives[k] \in DOMAIN state => Narratives[k - 1] \in DOMAIN state

C1_Witness ==
    /\ pc = "decision"
    /\ "readiness_summary" \in DOMAIN state
    /\ "final_decision" \notin DOMAIN state

\* C2: once validation has passed, a row whose generation calls always fail does
\* not halt the batch: when the run has ended, every row whose calls always
\* succeed has its result record with all four narrative fields, whichever of
\* the two comes first in the sheet.
C2_FailureDoesNotHaltBatch ==
    pc \in {"done", "crashed"} =>
        \A i, j \in 1..Len(df.rows) :
            (failAt[i] = 0 /\ failAt[j] = 1) =>
                /\ i <= Len(results)
                /\ results[i]["Country"] = df.rows[i]["Country"]
                /\ \A k \in 1..Len(ResultFields) : results[i][ResultFields[k]] \in Texts

\* C3: after a node's generation call has failed for a row, no later node of
\* that row runs, no call for a later node of that row is made, no later
\* narrative field of that row is set, and the row gets no result record.
C3_AbortOnFailure ==
    \A k \in 1..Len(calls) :
        ~calls[k].ok =>
            /\ \A m \in (k + 1)..Len(calls) :
                   ~(calls[m].rec = calls[k].rec
                     /\ StageNo(calls[m].node) > StageNo(calls[k].node))
            /\ Len(results) < calls[k].rec
            /\ idx = calls[k].rec =>
                   /\ pc \notin NodeSet \cup {END}
                   /\ \A n \in StageNo(calls[k].node)..Len(Narratives) :
                          Narratives[n] \notin DOMAIN state

C3_Witness ==
    /\ pc = "crashed"
    /\ Len(calls) > 0
    /\ calls[Len(calls)].node = "opportunity"
    /\ ~calls[Len(calls)].ok
    /\ "risk_summary" \in DOMAIN state

\* C4: validation is a gate before all processing: while the sheet lacks a
\* required column no generation call has been made, no row's pipeline has
\* started, no result exists, and the script is at the check or stopped.
C4_ValidationGate ==
    Missing # {} =>
        /\ calls = << >>
        /\ results = << >>
        /\ idx = 0
        /\ DOMAIN state = {}
        /\ pc \in {"validate", "stopped"}

C4_Witness ==
    /\ pc = "stopped"
    /\ error.shown
    /\ Missing = {"Population"}
    /\ calls = << >>

\* C5: when the batch is rejected, the columns the error names are the columns
\* the sheet lacks.
C5_ErrorNamesMissingColumns ==
    pc = "stopped" => Range(error.columns) = Missing

\* C6: for whole-number inputs in range, the derived columns attached before the
\* pipeline runs are Risk_Score = (5 - Risk_Class) + Medical_Incidence
\* + (3 - Tech_Limitations) and Readiness_Score = Market_Maturity
\* + Affiliate_Readiness + Digital_Readiness, and computing the scores again from
\* the scored row gives the same two values.
C6_ScoresAsSpecified ==
    pc = "loop" =>
        \A i \in 1..Len(df.rows) :
            LET r == df.rows[i] IN
            Whole(r) =>
                /\ r["Risk_Score"] =
                       Num((5 - r["Risk_Class"].int) + r["Medical_Incidence"].int
                             + (3 - r["Tech_Limitations"].int))
                /\ r["Readiness_Score"] =
                       Num(r["Market_Maturity"].int + r["Affiliate_Readiness"].int
                             + r["Digital_Readiness"].int)
                /\ calculate_scores(r) = << r["Risk_Score"].int, r["Readiness_Score"].int >>

C6_Witness ==
    /\ pc = "loop"
    /\ Len(df.rows) = 1
    /\ df.rows[1]["Risk_Class"] = Num(3)
    /\ df.rows[1]["Medical_Incidence"] = Num(2)
    /\ df.rows[1]["Tech_Limitations"] = Num(1)
    /\ df.rows[1]["Market_Maturity"] = Num(4)
    /\ df.rows[1]["Affiliate_Readiness"] = Num(3)
    /\ df.rows[1]["Digital_Readiness"] = Num(2)
    /\ df.rows[1]["Risk_Score"] = Num(6)
    /\ df.rows[1]["Readiness_Score"] = Num(9)

\* C7: no narrative field is overwritten: within one row's assessment a field that
\* is set keeps its value in every step, and a step of a node changes no key of
\* the state (the row included) other than that node's own narrative field.
C7_NeverOverwritten ==
    [][ /\ idx' = idx =>
              \A f \in NarrativeSet :
                  f \in DOMAIN state => (f \in DOMAIN state' /\ state'[f] = state[f])
        /\ pc \in NodeSet =>
              \A key \in DOMAIN state' :
                  key # Narratives[StageNo(pc)] =>
                      (key \in DOMAIN state /\ state'[key] = state[key]) ]_vars

C7_Witness ==
    /\ pc = END
    /\ NarrativeSet \subseteq DOMAIN state
    /\ state["risk_summary"] # state["opportunity_summary"]
    /\ state["row"] = df.rows[idx]

\* C8: a node makes exactly one generation call per execution and never repeats a
\* failed one: the calls made for a row are the nodes risk, opportunity,
\* readiness, decision in that order, one each, up to the node reached; only the
\* last of them can have failed; a row with a result record caused exactly four.
C8_OneCallPerStage ==
    \A i \in 1..idx :
        LET mine == CallsOf(i) IN
        /\ Len(mine) <= Len(Nodes)
        /\ \A k \in 1..Len(mine) : mine[k].node = Nodes[k]
        /\ \A k \in 1..(Len(mine) - 1) : mine[k].ok
        /\ i <= Len(results) => (Len(mine) = Len(Nodes) /\ mine[Len(mine)].ok)
        /\ (i = idx /\ pc \in NodeSet) => Len(mine) = StageNo(pc) - 1
        /\ (i = idx /\ pc = "crashed") => (Len(mine) >= 1 /\ ~mine[Len(mine)].ok)

C8_Witness ==
    /\ pc = "crashed"
    /\ Len(results) = 1
    /\ Len(CallsOf(1)) = Len(Nodes)
    /\ Len(CallsOf(2)) = 3
    /\ ~calls[Len(calls)].ok

\* C9 as stated: the decision node's prompt is built from the three prior
\* narratives only: two decision calls whose states agree on the three summaries
\* carry the same prompt.
C9_PromptFromNarrativesOnly ==
    \A a, b \in DecisionCalls : SameNarratives(a, b) => a.prompt = b.prompt

\* C9 as amended: the decision node's prompt is built from the three prior
\* narratives and the row's Country only: two decision calls whose states agree
\* on the three summaries and on Country carry the same prompt and system
\* message, whatever else differs in their rows.
C9_PromptFromNarrativesAndCountry ==
    \A a, b \in DecisionCalls :
        (SameNarratives(a, b) /\ a.state["row"]["Country"] = b.state["row"]["Country"])
            => (a.prompt = b.prompt /\ a.system = b.system)

C9_Witness ==
    \E a, b \in DecisionCalls :
        /\ SameNarratives(a, b)
        /\ a.state["row"]["Country"] = b.state["row"]["Country"]
        /\ a.state["row"]["Population"] # b.state["row"]["Population"]
        /\ a.state["row"]["Risk_Class"] # b.state["row"]["Risk_Class"]
        /\ a.prompt = b.prompt

\* C10: the assessment state is not shared across rows: a row's pipeline starts
\* from a state holding only that row, every call is made from a state holding
\* the row it is made for, and every narrative of a row's result record is the
\* content of a successful call made for that row by the node owning the field.
C10_FreshStatePerRecord ==
    /\ pc = entry_point => (DOMAIN state = {"row"} /\ state["row"] = df.rows[idx])
    /\ \A m \in 1..Len(calls) : calls[m].state["row"] = df.rows[calls[m].rec]
    /\ \A i \in 1..Len(results) :
           /\ results[i]["Country"] = df.rows[i]["Country"]
           /\ \A k \in 1..Len(Nodes) :
                  \E m \in 1..Len(calls) :
                      /\ calls[m].rec = i
                      /\ calls[m].node = Nodes[k]
                      /\ calls[m].ok
                      /\ calls[m].content = results[i][ResultFields[k]]

C10_Witness ==
    /\ Len(results) = 2
    /\ pc = "done"
    /\ results[1]["Country"] # results[2]["Country"]
    /\ \A k \in 1..Len(ResultFields) :
           results[1][ResultFields[k]] # results[2][ResultFields[k]]

====
